---- MODULE Spec2Model ----
(***************************************************************************)
(* A model of the sat-solver repository: the expression algebra            *)
(* (src/src/expression/expression.rs), the normal-form transformer         *)
(* (src/src/expression/normal.rs) and the DPLL engine                      *)
(* (src/src/solver/dpll.rs).                                               *)
(*                                                                         *)
(* The specifications share the variables:                                 *)
(*   SpecT      applies the pure functions of the transformer to an input  *)
(*              expression drawn from a bounded set;                       *)
(*   Spec       runs solve_dpll on an instance and an initial assignment,  *)
(*              the recursion of solve_dpll_recursive unfolded on an       *)
(*              explicit stack of frames;                                  *)
(*   SpecTwice  is Spec with a caller that invokes solve_dpll a second     *)
(*              time on the same instance and initial assignment;          *)
(*   FairSpec   is Spec with the call made and its steps taken fairly;    *)
(*   SpecP      is the portfolio of main (src/src/main.rs): the threads    *)
(*              that run solve_dpll, the channel and the receiving loop.   *)
(***************************************************************************)
EXTENDS Integers, Sequences, FiniteSets, TLC

\* ------------------------------------------------------------------------
\* Bounds of the model
\* ------------------------------------------------------------------------

\* Largest number of nodes of an input expression without constant leaves.
MaxNodes == 7

\* Largest number of nodes of an input expression that has constant leaves.
MaxConstNodes == 3

\* Largest number of entries of the initial assignment handed to solve_dpll.
MaxInit == 1

\* Number of variables of the encoded instances.
NumVars == 2

\* Largest number of clauses of an encoded instance.
MaxClauses == 4

\* Number of threads main spawns (THREADS, main.rs:17, is 24).
THREADS == 3

\* Largest number of clauses of an instance whose expression holds
\* identifiers that its name map does not declare.
MaxForeignClauses == 2

\* ------------------------------------------------------------------------
\* Expression (expression/expression.rs:11-18): a tagged tree
\* ------------------------------------------------------------------------

Variable(var) == [tag |-> "Variable", id |-> var]

Constant(val) == [tag |-> "Constant", val |-> val]

And(lhs, rhs) == [tag |-> "And", lhs |-> lhs, rhs |-> rhs]

Or(lhs, rhs) == [tag |-> "Or", lhs |-> lhs, rhs |-> rhs]

Not(expr) == [tag |-> "Not", expr |-> expr]

\* Literal (normal.rs:12-16, 28-36)
Literal(var_id, value) == [var_id |-> var_id, value |-> value]

LiteralNot(literal) == Literal(literal.var_id, ~literal.value)

\* Assignment (expression.rs:20-23): a HashMap<VariableId, bool>, here a
\* function whose domain is the set of assigned identifiers.
EmptyAssignment == [id \in {} |-> TRUE]

AssignmentInsert(assignment, var_id, value) ==
    [id \in DOMAIN assignment \cup {var_id} |->
        IF id = var_id THEN value ELSE assignment[id]]

AssignmentRemove(assignment, var_id) ==
    [id \in DOMAIN assignment \ {var_id} |-> assignment[id]]

\* ------------------------------------------------------------------------
\* Expression::evaluate (expression.rs:27-84): partial evaluation
\* ------------------------------------------------------------------------

\* evaluate_and with the arms of a true left operand exchanged: the left
\* operand is returned instead of the right one.
evaluate_and_keeps_lhs(value_lhs, value_rhs) ==
    IF value_lhs.tag = "Constant"
    THEN (IF value_lhs.val THEN value_lhs ELSE Constant(FALSE))
    ELSE IF value_rhs.tag = "Constant"
    THEN (IF value_rhs.val THEN value_lhs ELSE Constant(FALSE))
    ELSE And(value_lhs, value_rhs)

\* The And arm once both operands are evaluated (expression.rs:39-53)
evaluate_and(value_lhs, value_rhs) ==
    IF value_lhs.tag = "Constant"
    THEN (IF value_lhs.val THEN value_rhs ELSE Constant(FALSE))
    ELSE IF value_rhs.tag = "Constant"
    THEN (IF value_rhs.val THEN value_lhs ELSE Constant(FALSE))
    ELSE And(value_lhs, value_rhs)

\* The Or arm once both operands are evaluated (expression.rs:58-72)
evaluate_or(value_lhs, value_rhs) ==
    IF value_lhs.tag = "Constant"
    THEN (IF value_lhs.val THEN Constant(TRUE) ELSE value_rhs)
    ELSE IF value_rhs.tag = "Constant"
    THEN (IF value_rhs.val THEN Constant(TRUE) ELSE value_lhs)
    ELSE Or(value_lhs, value_rhs)

RECURSIVE evaluate(_, _)
evaluate(self, assignment) ==
    CASE self.tag = "Variable" ->
            IF self.id \in DOMAIN assignment
            THEN Constant(assignment[self.id])
            ELSE self
      [] self.tag = "And" ->
            evaluate_and(evaluate(self.lhs, assignment),
                         evaluate(self.rhs, assignment))
      [] self.tag = "Or" ->
            evaluate_or(evaluate(self.lhs, assignment),
                        evaluate(self.rhs, assignment))
      [] self.tag = "Not" ->
            LET value == evaluate(self.expr, assignment)
            IN  IF value.tag = "Constant"
                THEN Constant(~value.val)
                ELSE Not(value)
      [] OTHER -> self

\* The naive truth-table evaluation of the first draft (solver.rs:54-75):
\* total assignments only, a Boolean result.
RECURSIVE naive_evaluate(_, _)
naive_evaluate(self, assignment) ==
    CASE self.tag = "Variable" -> assignment[self.id]
      [] self.tag = "Constant" -> self.val
      [] self.tag = "And" ->
            naive_evaluate(self.lhs, assignment) /\ naive_evaluate(self.rhs, assignment)
      [] self.tag = "Or" ->
            naive_evaluate(self.rhs, assignment) \/ naive_evaluate(self.lhs, assignment)
      [] self.tag = "Not" -> ~naive_evaluate(self.expr, assignment)

\* ------------------------------------------------------------------------
\* Normal-form transformer (normal.rs:128-261)
\* ------------------------------------------------------------------------

\* Expression::distribute_and_over_or (normal.rs:134-157)
RECURSIVE distribute_and_over_or(_)
distribute_and_over_or(self) ==
    CASE self.tag = "And" ->
            IF self.rhs.tag = "Or"
            THEN distribute_and_over_or(
                    Or(And(self.lhs, self.rhs.lhs), And(self.lhs, self.rhs.rhs)))
            ELSE IF self.lhs.tag = "Or"
            THEN distribute_and_over_or(
                    Or(And(self.lhs.lhs, self.rhs), And(self.lhs.rhs, self.rhs)))
            ELSE And(distribute_and_over_or(self.lhs),
                     distribute_and_over_or(self.rhs))
      [] self.tag = "Or" ->
            Or(distribute_and_over_or(self.lhs), distribute_and_over_or(self.rhs))
      [] self.tag = "Not" -> Not(distribute_and_over_or(self.expr))
      [] OTHER -> self

\* Expression::recursive_demorgan (normal.rs:177-218).  DemorganPass is one
\* turn of the `while modified` loop: the rewritten expression and the flag.
RECURSIVE recursive_demorgan(_)
\* A pass that moves Not inside and keeps the connective
DemorganPassKeepsConnective(expression) ==
    CASE expression.tag = "And" ->
            [expression |-> And(recursive_demorgan(expression.lhs),
                                recursive_demorgan(expression.rhs)),
             modified |-> FALSE]
      [] expression.tag = "Or" ->
            [expression |-> Or(recursive_demorgan(expression.lhs),
                               recursive_demorgan(expression.rhs)),
             modified |-> FALSE]
      [] expression.tag = "Not" ->
            LET expr == expression.expr
            IN  CASE expr.tag = "And" ->
                        [expression |-> And(Not(recursive_demorgan(expr.lhs)),
                                            Not(recursive_demorgan(expr.rhs))),
                         modified |-> TRUE]
                  [] expr.tag = "Or" ->
                        [expression |-> Or(Not(recursive_demorgan(expr.lhs)),
                                           Not(recursive_demorgan(expr.rhs))),
                         modified |-> TRUE]
                  [] expr.tag = "Not" ->
                        [expression |-> recursive_demorgan(expr.expr),
                         modified |-> FALSE]
                  [] OTHER -> [expression |-> expression, modified |-> FALSE]
      [] OTHER -> [expression |-> expression, modified |-> FALSE]

DemorganPass(expression) ==
    CASE expression.tag = "And" ->
            [expression |-> And(recursive_demorgan(expression.lhs),
                                recursive_demorgan(expression.rhs)),
             modified |-> FALSE]
      [] expression.tag = "Or" ->
            [expression |-> Or(recursive_demorgan(expression.lhs),
                               recursive_demorgan(expression.rhs)),
             modified |-> FALSE]
      [] expression.tag = "Not" ->
            LET expr == expression.expr
            IN  CASE expr.tag = "And" ->
                        [expression |-> Or(Not(recursive_demorgan(expr.lhs)),
                                           Not(recursive_demorgan(expr.rhs))),
                         modified |-> TRUE]
                  [] expr.tag = "Or" ->
                        [expression |-> And(Not(recursive_demorgan(expr.lhs)),
                                            Not(recursive_demorgan(expr.rhs))),
                         modified |-> TRUE]
                  [] expr.tag = "Not" ->
                        [expression |-> recursive_demorgan(expr.expr),
                         modified |-> FALSE]
                  [] OTHER -> [expression |-> expression, modified |-> FALSE]
      [] OTHER -> [expression |-> expression, modified |-> FALSE]

recursive_demorgan(self) ==
    LET pass == DemorganPass(self)
    IN  IF pass.modified
        THEN recursive_demorgan(pass.expression)
        ELSE pass.expression

\* Expression::to_dnf_expr (normal.rs:165-170)
to_dnf_expr(self) ==
    LET reduced == evaluate(self, EmptyAssignment)
        nnf == recursive_demorgan(reduced)
        distributed == distribute_and_over_or(nnf)
    IN  distributed

\* Expression::to_cnf_expr (normal.rs:226-232)
to_cnf_expr(self) ==
    LET negated_dnf == to_dnf_expr(Not(self))
    IN  recursive_demorgan(Not(negated_dnf))

\* ------------------------------------------------------------------------
\* The transformer with its steps counted: every call of
\* distribute_and_over_or and every turn of the `while modified` loop of
\* recursive_demorgan takes one unit of `fuel`; a call that finds none left
\* gives up, and fuel -1 in the result says so.
\* ------------------------------------------------------------------------

\* A loop that takes another turn whatever the last one did
demorgan_modified_always(expression) == TRUE

\* recursive_demorgan: `modified` at the end of a turn of the loop on
\* `expression` (normal.rs:182, 200, 207).
demorgan_modified(expression) ==
    expression.tag = "Not" /\ expression.expr.tag \in {"And", "Or"}

\* Expression::recursive_demorgan (normal.rs:177-218)
RECURSIVE recursive_demorgan_within(_, _)
recursive_demorgan_within(self, fuel) ==
    IF fuel <= 0
    THEN [expression |-> self, fuel |-> -1]
    ELSE LET turn ==
                CASE self.tag \in {"And", "Or"} ->
                        LET inner_lhs == recursive_demorgan_within(self.lhs, fuel - 1)
                            inner_rhs == recursive_demorgan_within(self.rhs, inner_lhs.fuel)
                        IN  [expression |->
                                 [self EXCEPT !.lhs = inner_lhs.expression,
                                              !.rhs = inner_rhs.expression],
                             fuel |-> inner_rhs.fuel]
                  [] self.tag = "Not" /\ self.expr.tag \in {"And", "Or"} ->
                        LET inner_lhs == recursive_demorgan_within(self.expr.lhs, fuel - 1)
                            inner_rhs == recursive_demorgan_within(self.expr.rhs, inner_lhs.fuel)
                        IN  [expression |->
                                 IF self.expr.tag = "And"
                                 THEN Or(Not(inner_lhs.expression),
                                         Not(inner_rhs.expression))
                                 ELSE And(Not(inner_lhs.expression),
                                          Not(inner_rhs.expression)),
                             fuel |-> inner_rhs.fuel]
                  [] self.tag = "Not" /\ self.expr.tag = "Not" ->
                        recursive_demorgan_within(self.expr.expr, fuel - 1)
                  [] OTHER -> [expression |-> self, fuel |-> fuel - 1]
         IN  IF demorgan_modified(self)
             THEN recursive_demorgan_within(turn.expression, turn.fuel)
             ELSE turn

\* Expression::distribute_and_over_or (normal.rs:134-157)
RECURSIVE distribute_and_over_or_within(_, _)
distribute_and_over_or_within(self, fuel) ==
    IF fuel <= 0
    THEN [expression |-> self, fuel |-> -1]
    ELSE CASE self.tag = "And" ->
                IF self.rhs.tag = "Or"
                THEN distribute_and_over_or_within(
                        Or(And(self.lhs, self.rhs.lhs), And(self.lhs, self.rhs.rhs)),
                        fuel - 1)
                ELSE IF self.lhs.tag = "Or"
                THEN distribute_and_over_or_within(
                        Or(And(self.lhs.lhs, self.rhs), And(self.lhs.rhs, self.rhs)),
                        fuel - 1)
                ELSE LET lhs == distribute_and_over_or_within(self.lhs, fuel - 1)
                         rhs == distribute_and_over_or_within(self.rhs, lhs.fuel)
                     IN  [expression |-> And(lhs.expression, rhs.expression),
                          fuel |-> rhs.fuel]
          [] self.tag = "Or" ->
                LET lhs == distribute_and_over_or_within(self.lhs, fuel - 1)
                    rhs == distribute_and_over_or_within(self.rhs, lhs.fuel)
                IN  [expression |-> Or(lhs.expression, rhs.expression),
                     fuel |-> rhs.fuel]
          [] self.tag = "Not" ->
                LET expr == distribute_and_over_or_within(self.expr, fuel - 1)
                IN  [expression |-> Not(expr.expression), fuel |-> expr.fuel]
          [] OTHER -> [expression |-> self, fuel |-> fuel - 1]

\* Expression::to_dnf_expr (normal.rs:165-170)
to_dnf_expr_within(self, fuel) ==
    LET reduced == evaluate(self, EmptyAssignment)
        nnf == recursive_demorgan_within(reduced, fuel)
    IN  distribute_and_over_or_within(nnf.expression, nnf.fuel)

\* Expression::to_cnf_expr (normal.rs:226-232)
to_cnf_expr_within(self, fuel) ==
    LET negated_dnf == to_dnf_expr_within(Not(self), fuel)
    IN  recursive_demorgan_within(Not(negated_dnf.expression), negated_dnf.fuel)

\* The number of nodes of an expression.
RECURSIVE Size(_)
Size(self) ==
    CASE self.tag \in {"And", "Or"} -> 1 + Size(self.lhs) + Size(self.rhs)
      [] self.tag = "Not" -> 1 + Size(self.expr)
      [] OTHER -> 1

\* Expression::collect_literals (normal.rs:239-260): a HashSet<Literal>
RECURSIVE collect_literals(_)
collect_literals(self) ==
    CASE self.tag = "Variable" -> {Literal(self.id, TRUE)}
      [] self.tag = "Constant" -> {}
      [] self.tag = "And" ->
            collect_literals(self.lhs) \cup collect_literals(self.rhs)
      [] self.tag = "Or" ->
            collect_literals(self.lhs) \cup collect_literals(self.rhs)
      [] self.tag = "Not" ->
            IF self.expr.tag = "Variable"
            THEN {Literal(self.expr.id, FALSE)}
            ELSE collect_literals(self.expr)

\* Clause (normal.rs:7-10, 38-41).  The Vec<Literal> of a clause is always
\* collected from the HashSet that collect_literals returns, so it holds no
\* literal twice and its order is arbitrary; every reader of it (contains,
\* the count of unassigned literals, the one unassigned literal of a unit
\* clause, the pure-literal scan) is independent of that order.  The
\* literals are therefore kept as a set.
Clause(literals) == [literals |-> literals]

\* impl From<Expression> for CNF (normal.rs:105-126): the worklist
\* `remaining` is a stack, `clauses` a Vec in extraction order.
RECURSIVE ExtractCNF(_, _)
ExtractCNF(remaining, clauses) ==
    IF remaining = <<>>
    THEN clauses
    ELSE LET top == remaining[Len(remaining)]
             rest == SubSeq(remaining, 1, Len(remaining) - 1)
         IN  IF top.tag = "And"
             THEN ExtractCNF(rest \o <<top.lhs, top.rhs>>, clauses)
             ELSE ExtractCNF(rest, Append(clauses, Clause(collect_literals(top))))

CNF_from(value) == ExtractCNF(<<to_cnf_expr(value)>>, <<>>)

\* impl From<Expression> for DNF (normal.rs:82-103): `clauses` is a HashSet.
RECURSIVE ExtractDNF(_, _)
ExtractDNF(remaining, clauses) ==
    IF remaining = <<>>
    THEN clauses
    ELSE LET top == remaining[Len(remaining)]
             rest == SubSeq(remaining, 1, Len(remaining) - 1)
         IN  IF top.tag = "Or"
             THEN ExtractDNF(rest \o <<top.lhs, top.rhs>>, clauses)
             ELSE ExtractDNF(rest, clauses \cup {Clause(collect_literals(top))})

DNF_from(value) == ExtractDNF(<<to_dnf_expr(value)>>, {})

\* ------------------------------------------------------------------------
\* Inputs
\* ------------------------------------------------------------------------

\* ParsedExpression::intern_to_expression (parser.rs:20-50) numbers the
\* variables of an expression 0, 1, 2, ... in the order of their first
\* occurrence, left operand before right operand.  Interned(n, seen, consts)
\* is the set of interned expressions of exactly n nodes, given that `seen`
\* identifiers were interned before, each with the number of identifiers
\* interned after it; constant leaves are drawn only when `consts` holds.
RECURSIVE Interned(_, _, _)
Interned(n, seen, consts) ==
    IF n = 1
    THEN {[e |-> Variable(id), seen |-> IF id = seen THEN seen + 1 ELSE seen] :
             id \in 0..seen}
         \cup (IF consts
               THEN {[e |-> Constant(val), seen |-> seen] : val \in BOOLEAN}
               ELSE {})
    ELSE {[e |-> Not(x.e), seen |-> x.seen] : x \in Interned(n - 1, seen, consts)}
         \cup UNION { UNION { UNION {
                  {[e |-> And(l.e, r.e), seen |-> r.seen],
                   [e |-> Or(l.e, r.e), seen |-> r.seen]} :
                  r \in Interned(n - 1 - a, l.seen, consts)} :
                  l \in Interned(a, seen, consts)} :
                  a \in 1..(n - 2)}

\* impl From<ParsedExpression> for SATInstance (parser.rs:52-58) and
\* SATInstance::new (instance.rs:21-27): the expression and the identifiers
\* of var_to_str, which are exactly the interned ones.
SATInstance(e, seen) == [expression |-> e, var_to_str |-> 0..(seen - 1)]

\* The conversion of a literal that drops its polarity
Expression_from_Literal_positive(value) == Variable(value.var_id)

\* impl From<Literal> for Expression (normal.rs:46-54)
Expression_from_Literal(value) ==
    IF value.value = TRUE
    THEN Variable(value.var_id)
    ELSE Not(Variable(value.var_id))

\* impl From<CNF> for Expression (normal.rs:68-80): the inner fold over the
\* literals of a clause, starting from Constant(false) ...
RECURSIVE FoldClause(_, _)
FoldClause(acc, literals) ==
    IF literals = {}
    THEN acc
    ELSE LET literal == CHOOSE l \in literals : TRUE
         IN  FoldClause(Or(acc, Expression_from_Literal(literal)),
                        literals \ {literal})

\* ... and the outer fold over the clauses from clause i on, starting from
\* Constant(true).
RECURSIVE FoldClauses(_, _, _)
FoldClauses(acc, clauses, i) ==
    IF i > Len(clauses)
    THEN acc
    ELSE FoldClauses(And(acc, FoldClause(Constant(FALSE), clauses[i].literals)),
                     clauses, i + 1)

Expression_from_CNF(value) == FoldClauses(Constant(TRUE), value, 1)

\* Some enumeration of a finite set.
RECURSIVE SeqOf(_)
SeqOf(set) ==
    IF set = {}
    THEN <<>>
    ELSE LET x == CHOOSE y \in set : TRUE
         IN  <<x>> \o SeqOf(set \ {x})

\* The clauses of two literals on two different variables of 0..NumVars-1.
BinaryClauses ==
    {Clause({Literal(ids[1], values[1]), Literal(ids[2], values[2])}) :
        ids \in {p \in (0..(NumVars - 1)) \X (0..(NumVars - 1)) : p[1] < p[2]},
        values \in BOOLEAN \X BOOLEAN}

\* The instances of the parser: every interned expression within the bounds.
ParsedInstances ==
    {SATInstance(x.e, x.seen) :
        x \in UNION {Interned(n, 0, FALSE) : n \in 1..MaxNodes}
              \cup UNION {Interned(n, 0, TRUE) : n \in 1..MaxConstNodes}}

\* The instances of an encoder (main.rs:20-88 builds its expression as
\* such a conjunction of disjunctions): the expression of a CNF of at most
\* MaxClauses different binary clauses, with NumVars names.
EncodedInstances ==
    {SATInstance(Expression_from_CNF(SeqOf(clauses)), NumVars) :
        clauses \in {c \in SUBSET BinaryClauses :
                        Cardinality(c) \in 1..MaxClauses}}

\* SATInstance::new (instance.rs:21-27) takes any expression with any name
\* map.  These instances declare one name, identifier 0, while their
\* expression, a conjunction of binary clauses, is over the identifiers
\* 1..NumVars.
ForeignClauses ==
    {Clause({Literal(ids[1], values[1]), Literal(ids[2], values[2])}) :
        ids \in {p \in (1..NumVars) \X (1..NumVars) : p[1] < p[2]},
        values \in BOOLEAN \X BOOLEAN}

ForeignInstances ==
    {SATInstance(Expression_from_CNF(SeqOf(clauses)), 1) :
        clauses \in {c \in SUBSET ForeignClauses :
                        Cardinality(c) \in 1..MaxForeignClauses}}

\* The instance of the text `v0 & (-v0 | v1) & (-v1 | v2)`: the parser
\* takes `&` as right associative (parser.rs:78) and interns v0, v1, v2 as
\* 0, 1, 2 (parser.rs:20-50); the same conjunction nested to the left, as a
\* fold builds it, stands beside it.
ChainInstances ==
    LET v0 == Variable(0)
        v1 == Variable(1)
        v2 == Variable(2)
    IN  {SATInstance(And(v0, And(Or(Not(v0), v1), Or(Not(v1), v2))), 3),
         SATInstance(And(And(v0, Or(Not(v0), v1)), Or(Not(v1), v2)), 3)}

Instances ==
    ParsedInstances \cup EncodedInstances \cup ForeignInstances
        \cup ChainInstances

\* The partial assignments over a set of identifiers with at most `most`
\* entries, and the total ones.
AssignmentsOver(ids, most) ==
    UNION {[dom -> BOOLEAN] : dom \in {d \in SUBSET ids : Cardinality(d) <= most}}

TotalAssignments(ids) == [ids -> BOOLEAN]

\* The identifiers that occur in an expression.
RECURSIVE Identifiers(_)
Identifiers(self) ==
    CASE self.tag = "Variable" -> {self.id}
      [] self.tag = "Constant" -> {}
      [] self.tag = "Not" -> Identifiers(self.expr)
      [] OTHER -> Identifiers(self.lhs) \cup Identifiers(self.rhs)


\* ------------------------------------------------------------------------
\* Clause database of the search (dpll.rs:19-97)
\* ------------------------------------------------------------------------

\* DpllClause::new (dpll.rs:47-49)
DpllClause(literals, is_disabled) ==
    [literals |-> literals, is_disabled |-> is_disabled]

\* impl From<CNF> for DpllCNF, impl From<Clause> for DpllClause (dpll.rs:56-68)
DpllCNF_from(value) ==
    [i \in 1..Len(value) |-> DpllClause(value[i].literals, FALSE)]

\* DpllCNF::has_no_clauses (dpll.rs:31-33)
has_no_clauses(cnf) ==
    Cardinality({i \in DOMAIN cnf : ~cnf[i].is_disabled}) = 0

\* DpllClause::literal_count (dpll.rs:51-53)
literal_count(clause, assignment) ==
    Cardinality({literal \in clause.literals :
                    literal.var_id \notin DOMAIN assignment})

\* DpllCNF::has_empty_clause (dpll.rs:35-43)
has_empty_clause(cnf, assignment) ==
    \E i \in DOMAIN cnf :
        /\ ~cnf[i].is_disabled
        /\ literal_count(cnf[i], assignment) = 0

\* A disable that takes every clause in which the variable of the literal
\* occurs, whatever its polarity
disable_variable(cnf, literal) ==
    [i \in DOMAIN cnf |->
        IF /\ ~cnf[i].is_disabled
           /\ \E clause_literal \in cnf[i].literals :
                 clause_literal.var_id = literal.var_id
        THEN DpllClause(cnf[i].literals, TRUE)
        ELSE cnf[i]]

\* DpllCNF::disable (dpll.rs:75-82)
disable(cnf, literal) ==
    [i \in DOMAIN cnf |->
        IF ~cnf[i].is_disabled /\ literal \in cnf[i].literals
        THEN DpllClause(cnf[i].literals, TRUE)
        ELSE cnf[i]]

\* enable without the test of the other literals of the clause
enable_unchecked(cnf, literal, assignment) ==
    [i \in DOMAIN cnf |->
        IF cnf[i].is_disabled /\ literal \in cnf[i].literals
        THEN DpllClause(cnf[i].literals, FALSE)
        ELSE cnf[i]]

\* DpllCNF::enable (dpll.rs:84-96)
enable(cnf, literal, assignment) ==
    [i \in DOMAIN cnf |->
        IF /\ cnf[i].is_disabled
           /\ literal \in cnf[i].literals
           /\ ~\E clause_literal \in cnf[i].literals :
                 /\ clause_literal.var_id \in DOMAIN assignment
                 /\ assignment[clause_literal.var_id] = clause_literal.value
        THEN DpllClause(cnf[i].literals, FALSE)
        ELSE cnf[i]]

\* ------------------------------------------------------------------------
\* The simplification rules and the decision (dpll.rs:99-166)
\* ------------------------------------------------------------------------

\* A search that finds no unit clause
unit_clause_literal_none(cnf, assignment) == {}

\* remove_unit_clauses, the search of one turn of its loop (dpll.rs:106-110):
\* the unassigned literal of the first enabled clause that has exactly one,
\* as a set of at most one literal (the Option).
unit_clause_literal(cnf, assignment) ==
    LET units == {i \in DOMAIN cnf :
                    /\ ~cnf[i].is_disabled
                    /\ literal_count(cnf[i], assignment) = 1}
    IN  IF units = {}
        THEN {}
        ELSE LET first == CHOOSE i \in units : \A j \in units : i <= j
             IN  {literal \in cnf[first].literals :
                     literal.var_id \notin DOMAIN assignment}

\* A scan that keeps a candidate whose negation it sees
ScanLiteralKeepsCandidate(sets, literal) ==
    IF literal \notin sets.impure_literals
    THEN [pure_literals |-> sets.pure_literals \cup {literal},
          impure_literals |-> sets.impure_literals]
    ELSE sets

\* eliminate_pure_literals, the body of its scan for one literal
\* (dpll.rs:132-140): `sets` holds pure_literals and impure_literals.
ScanLiteral(sets, literal) ==
    IF LiteralNot(literal) \in sets.pure_literals
    THEN [pure_literals |-> sets.pure_literals \ {LiteralNot(literal)},
          impure_literals |->
              sets.impure_literals \cup {literal, LiteralNot(literal)}]
    ELSE IF literal \notin sets.impure_literals
    THEN [pure_literals |-> sets.pure_literals \cup {literal},
          impure_literals |-> sets.impure_literals]
    ELSE sets

\* The inner loop of the scan (dpll.rs:131): the literals of one clause, in
\* some order.
RECURSIVE ScanClause(_, _)
ScanClause(literals, sets) ==
    IF literals = {}
    THEN sets
    ELSE LET literal == CHOOSE l \in literals : TRUE
         IN  ScanClause(literals \ {literal}, ScanLiteral(sets, literal))

\* The outer loop of the scan (dpll.rs:130): the enabled clauses from
\* clause i on, each filtered to the literals of unassigned variables.
RECURSIVE ScanClauses(_, _, _, _)
ScanClauses(cnf, i, assignment, sets) ==
    IF i > Len(cnf)
    THEN sets
    ELSE IF cnf[i].is_disabled
    THEN ScanClauses(cnf, i + 1, assignment, sets)
    ELSE ScanClauses(cnf, i + 1, assignment,
            ScanClause({literal \in cnf[i].literals :
                           literal.var_id \notin DOMAIN assignment}, sets))

\* The scan without its filter: the literals of assigned variables count too.
find_pure_literals_unfiltered(cnf, assignment) ==
    ScanClauses(cnf, 1, EmptyAssignment,
                [pure_literals |-> {}, impure_literals |-> {}]).pure_literals

\* eliminate_pure_literals, its first half (dpll.rs:127-142): the set
\* pure_literals when the scan ends.
find_pure_literals(cnf, assignment) ==
    ScanClauses(cnf, 1, assignment,
                [pure_literals |-> {}, impure_literals |-> {}]).pure_literals

\* A choice among all identifiers of 0..=max_id, assigned or not
choose_variable_any(max_id, assignment) == 0..max_id

\* choose_variable (dpll.rs:154-166): the identifiers it can return.  Both
\* arms return an identifier of 0..=max_id that the assignment does not
\* hold: the first by drawing until it hits one, the second by choosing
\* among them; the empty set is the None of the second arm.
choose_variable(max_id, assignment) ==
    {id \in 0..max_id : id \notin DOMAIN assignment}


\* ------------------------------------------------------------------------
\* State
\* ------------------------------------------------------------------------

VARIABLES
    expression,          \* SATInstance.expression (instance.rs:9)
    var_to_str,          \* the identifiers of SATInstance.var_to_str (instance.rs:10)
    initial_assignment,  \* the argument of solve_dpll (dpll.rs:229)
    max_id,              \* solve_dpll: max_id (dpll.rs:230)
    cnf,                 \* solve_dpll: cnf, the DpllCNF (dpll.rs:233)
    assignment,          \* solve_dpll: assignment (dpll.rs:234)
    stack,               \* the active invocations of solve_dpll_recursive
    ret,                 \* the value the last finished invocation returned
    result,              \* what solve_dpll returned: "Sat", "Unsat", "Abort"
    applied,             \* SpecT: the function applied to `expression`
    argument,            \* SpecT: the assignment handed to evaluate
    output,              \* SpecT: the value the function returned
    decisions,           \* how often this run called choose_variable (dpll.rs:193)
    previous,            \* SpecTwice: what the first invocation returned
    threads,             \* SpecP: where each spawned thread stands (main.rs:144-148)
    channel,             \* SpecP: the messages sent and not yet received (main.rs:136)
    collector            \* SpecP: where main stands (main.rs:140-167)

vars == <<expression, var_to_str, initial_assignment, max_id, cnf, assignment,
          stack, ret, result, applied, argument, output, decisions, previous,
          threads, channel, collector>>

instance_vars == <<expression, var_to_str, initial_assignment>>

transformer_vars == <<applied, argument, output>>

solver_vars == <<max_id, cnf, assignment, stack, ret, result, decisions>>

portfolio_vars == <<threads, channel, collector>>

\* What a run of solve_dpll leaves alone.
outside_vars == <<transformer_vars, previous, portfolio_vars>>

\* No invocation of solve_dpll has returned yet.
NoResult == [verdict |-> "none", assignment |-> EmptyAssignment]

\* The is_disabled flags of the clause database, clause by clause.
Flags(db) == [i \in DOMAIN db |-> db[i].is_disabled]

\* One invocation of solve_dpll_recursive (dpll.rs:168-227): where it
\* stands (pc), its locals new_assignments and var_id, what is left of the
\* iterators it is in (pure_literals, dpll.rs:144; restore, the index of the
\* next literal of new_assignments to undo, dpll.rs:184 and 221), and the
\* flags and the assignment as they were when it was entered.
Frame(db, asg) ==
    [pc |-> "unit",
     new_assignments |-> <<>>,
     pure_literals |-> {},
     var_id |-> -1,
     restore |-> 1,
     entry_flags |-> Flags(db),
     entry_assignment |-> asg]

Top == stack[Len(stack)]

Running == result = "none" /\ stack # <<>>

SetTop(frame) == [stack EXCEPT ![Len(stack)] = frame]

Pop == SubSeq(stack, 1, Len(stack) - 1)

\* ------------------------------------------------------------------------
\* solve_dpll (dpll.rs:229-244)
\* ------------------------------------------------------------------------

\* The loop of dpll.rs:236-238: disable is called once for every entry of
\* the initial assignment.
\* The loop with a disable that takes every clause in which the variable of
\* the literal occurs, whatever its polarity
RECURSIVE DisableAllOfVariable(_, _)
DisableAllOfVariable(db, literals) ==
    IF literals = {}
    THEN db
    ELSE LET literal == CHOOSE l \in literals : TRUE
         IN  DisableAllOfVariable(
                 disable(disable(db, literal), LiteralNot(literal)),
                 literals \ {literal})

RECURSIVE DisableAll(_, _)
DisableAll(db, literals) ==
    IF literals = {}
    THEN db
    ELSE LET literal == CHOOSE l \in literals : TRUE
         IN  DisableAll(disable(db, literal), literals \ {literal})

Init ==
    /\ \E instance \in Instances :
          /\ expression = instance.expression
          /\ var_to_str = instance.var_to_str
          /\ initial_assignment \in AssignmentsOver(instance.var_to_str, MaxInit)
    /\ max_id = 0
    /\ cnf = <<>>
    /\ assignment = EmptyAssignment
    /\ stack = <<>>
    /\ ret = "none"
    /\ result = "none"
    /\ applied = "none"
    /\ argument = EmptyAssignment
    /\ output = <<>>
    /\ decisions = 0
    /\ previous = NoResult
    /\ threads = <<>>
    /\ channel = <<>>
    /\ collector = "none"

\* solve_dpll up to its call of solve_dpll_recursive (dpll.rs:230-240).
\* `var_to_str.len() - 1` underflows when the map is empty: the subtraction
\* panics in a debug build and wraps in a release build, where the
\* conversion to VariableId then fails and `expect` panics.
SolveDpll ==
    /\ result = "none" /\ stack = <<>> /\ ret = "none"
    /\ IF var_to_str = {}
       THEN /\ result' = "Abort"
            /\ UNCHANGED <<max_id, cnf, assignment, stack, ret>>
       ELSE LET db == DisableAll(DpllCNF_from(CNF_from(expression)),
                         {Literal(id, initial_assignment[id]) :
                             id \in DOMAIN initial_assignment})
            IN  /\ max_id' = Cardinality(var_to_str) - 1
                /\ cnf' = db
                /\ assignment' = initial_assignment
                /\ stack' = <<Frame(db, initial_assignment)>>
                /\ UNCHANGED <<ret, result>>
    /\ UNCHANGED <<decisions, instance_vars, outside_vars>>

\* ------------------------------------------------------------------------
\* solve_dpll_recursive (dpll.rs:168-227)
\* ------------------------------------------------------------------------

\* `return verdict` of the top invocation; the return of the outermost one
\* is the result of solve_dpll (dpll.rs:240-243).
Return(verdict) ==
    /\ stack' = Pop
    /\ ret' = verdict
    /\ result' = IF Len(stack) = 1 THEN verdict ELSE result

\* remove_unit_clauses, one turn of its loop that finds a unit clause
\* (dpll.rs:112-121).
RemoveUnitClause ==
    /\ Running /\ Top.pc = "unit"
    /\ \E literal \in unit_clause_literal(cnf, assignment) :
          /\ assignment' = AssignmentInsert(assignment, literal.var_id, literal.value)
          /\ stack' = SetTop([Top EXCEPT
                                !.new_assignments = Append(@, literal)])
          /\ cnf' = disable(cnf, literal)
    /\ UNCHANGED <<max_id, decisions, ret, result, instance_vars, outside_vars>>

\* A loop of remove_unit_clauses that can stop while a unit clause is left
FindPureLiteralsEarly ==
    /\ Running /\ Top.pc = "unit"
    /\ stack' = SetTop([Top EXCEPT
                          !.pc = "pure",
                          !.pure_literals = find_pure_literals(cnf, assignment)])
    /\ UNCHANGED <<max_id, decisions, cnf, assignment, ret, result,
                   instance_vars, outside_vars>>

\* The last turn of the loop of remove_unit_clauses, which finds no unit
\* clause, and the scan of eliminate_pure_literals (dpll.rs:127-142).
FindPureLiterals ==
    /\ Running /\ Top.pc = "unit"
    /\ unit_clause_literal(cnf, assignment) = {}
    /\ stack' = SetTop([Top EXCEPT
                          !.pc = "pure",
                          !.pure_literals = find_pure_literals(cnf, assignment)])
    /\ UNCHANGED <<max_id, decisions, cnf, assignment, ret, result,
                   instance_vars, outside_vars>>

\* eliminate_pure_literals, one turn of its second loop (dpll.rs:144-151):
\* the HashSet hands out its literals in any order.
EliminatePureLiteral ==
    /\ Running /\ Top.pc = "pure"
    /\ \E pure_literal \in Top.pure_literals :
          /\ assignment' = AssignmentInsert(assignment, pure_literal.var_id,
                                            pure_literal.value)
          /\ stack' = SetTop([Top EXCEPT
                                !.new_assignments = Append(@, pure_literal),
                                !.pure_literals = @ \ {pure_literal}])
          /\ cnf' = disable(cnf, pure_literal)
    /\ UNCHANGED <<max_id, decisions, ret, result, instance_vars, outside_vars>>

Simplified == Running /\ Top.pc = "pure" /\ Top.pure_literals = {}

\* No clauses left: solution found (dpll.rs:176-179).
FoundSolution ==
    /\ Simplified
    /\ has_no_clauses(cnf)
    /\ Return("Sat")
    /\ UNCHANGED <<max_id, decisions, cnf, assignment, instance_vars, outside_vars>>

\* Empty clause left (dpll.rs:181-183): on to the restore loop.
FoundEmptyClause ==
    /\ Simplified
    /\ ~has_no_clauses(cnf)
    /\ has_empty_clause(cnf, assignment)
    /\ stack' = SetTop([Top EXCEPT !.pc = "restore"])
    /\ UNCHANGED <<max_id, decisions, cnf, assignment, ret, result,
                   instance_vars, outside_vars>>

\* A turn of a restore loop without its call of enable
RestoreNoEnable ==
    /\ Running /\ Top.pc = "restore"
    /\ Top.restore <= Len(Top.new_assignments)
    /\ assignment' =
          AssignmentRemove(assignment, Top.new_assignments[Top.restore].var_id)
    /\ stack' = SetTop([Top EXCEPT !.restore = @ + 1])
    /\ UNCHANGED <<max_id, decisions, cnf, ret, result, instance_vars, outside_vars>>

\* One turn of a restore loop (dpll.rs:184-187 and 221-224):
\* new_assignments.into_iter() hands out the literals first to last.
Restore ==
    /\ Running /\ Top.pc = "restore"
    /\ Top.restore <= Len(Top.new_assignments)
    /\ LET new_literal == Top.new_assignments[Top.restore]
           removed == AssignmentRemove(assignment, new_literal.var_id)
       IN  /\ assignment' = removed
           /\ cnf' = enable(cnf, new_literal, removed)
    /\ stack' = SetTop([Top EXCEPT !.restore = @ + 1])
    /\ UNCHANGED <<max_id, decisions, ret, result, instance_vars, outside_vars>>

Restored ==
    Running /\ Top.pc = "restore" /\ Top.restore > Len(Top.new_assignments)

\* The restore loop is over: return Unsat (dpll.rs:189 and 226).
ReturnUnsat ==
    /\ Restored
    /\ Return("Unsat")
    /\ UNCHANGED <<max_id, decisions, cnf, assignment, instance_vars, outside_vars>>

\* The guess and the first branch up to its recursive call (dpll.rs:192-199).
\* `expect` panics when choose_variable returns None.
BranchTrue ==
    /\ Simplified
    /\ ~has_no_clauses(cnf)
    /\ ~has_empty_clause(cnf, assignment)
    /\ IF choose_variable(max_id, assignment) = {}
       THEN /\ result' = "Abort"
            /\ UNCHANGED <<cnf, assignment, stack>>
       ELSE \E var_id \in choose_variable(max_id, assignment) :
               LET assigned == AssignmentInsert(assignment, var_id, TRUE)
                   db == disable(cnf, Literal(var_id, TRUE))
               IN  /\ assignment' = assigned
                   /\ cnf' = db
                   /\ stack' = Append(SetTop([Top EXCEPT !.pc = "true",
                                                         !.var_id = var_id]),
                                      Frame(db, assigned))
                   /\ UNCHANGED result
    /\ decisions' = decisions + 1
    /\ UNCHANGED <<max_id, ret, instance_vars, outside_vars>>

\* A branch returned Sat: return Sat (dpll.rs:199-201 and 211-213).
ReturnSat ==
    /\ Running /\ Top.pc \in {"true", "false"}
    /\ ret = "Sat"
    /\ Return("Sat")
    /\ UNCHANGED <<max_id, decisions, cnf, assignment, instance_vars, outside_vars>>

\* The first branch returned Unsat: restore, and give up without the
\* second branch
RestoreTrueGivesUp ==
    /\ Running /\ Top.pc = "true"
    /\ ret = "Unsat"
    /\ LET removed == AssignmentRemove(assignment, Top.var_id)
       IN  /\ assignment' = removed
           /\ cnf' = enable(cnf, Literal(Top.var_id, TRUE), removed)
    /\ stack' = SetTop([Top EXCEPT !.pc = "restore"])
    /\ UNCHANGED <<max_id, decisions, ret, result, instance_vars, outside_vars>>

\* The first branch returned Unsat: restore (dpll.rs:203-205).
RestoreTrue ==
    /\ Running /\ Top.pc = "true"
    /\ ret = "Unsat"
    /\ LET removed == AssignmentRemove(assignment, Top.var_id)
       IN  /\ assignment' = removed
           /\ cnf' = enable(cnf, Literal(Top.var_id, TRUE), removed)
    /\ stack' = SetTop([Top EXCEPT !.pc = "try_false"])
    /\ UNCHANGED <<max_id, decisions, ret, result, instance_vars, outside_vars>>

\* The second branch up to its recursive call (dpll.rs:207-211).
BranchFalse ==
    /\ Running /\ Top.pc = "try_false"
    /\ LET assigned == AssignmentInsert(assignment, Top.var_id, FALSE)
           db == disable(cnf, Literal(Top.var_id, FALSE))
       IN  /\ assignment' = assigned
           /\ cnf' = db
           /\ stack' = Append(SetTop([Top EXCEPT !.pc = "false"]),
                              Frame(db, assigned))
    /\ UNCHANGED <<max_id, decisions, ret, result, instance_vars, outside_vars>>

\* The second branch returned Unsat: restore, then on to the restore loop
\* (dpll.rs:217-219).
RestoreFalse ==
    /\ Running /\ Top.pc = "false"
    /\ ret = "Unsat"
    /\ LET removed == AssignmentRemove(assignment, Top.var_id)
       IN  /\ assignment' = removed
           /\ cnf' = enable(cnf, Literal(Top.var_id, FALSE), removed)
    /\ stack' = SetTop([Top EXCEPT !.pc = "restore"])
    /\ UNCHANGED <<max_id, decisions, ret, result, instance_vars, outside_vars>>

Next ==
    \/ SolveDpll
    \/ RemoveUnitClause
    \/ FindPureLiterals
    \/ EliminatePureLiteral
    \/ FoundSolution
    \/ FoundEmptyClause
    \/ Restore
    \/ ReturnUnsat
    \/ BranchTrue
    \/ ReturnSat
    \/ RestoreTrue
    \/ BranchFalse
    \/ RestoreFalse

Spec == Init /\ [][Next]_vars

\* ------------------------------------------------------------------------
\* SpecTwice: a caller that invokes solve_dpll again
\* ------------------------------------------------------------------------

\* The SolverResult of a finished invocation (instance.rs:14-18, dpll.rs:240-243).
SolverResult ==
    [verdict |-> result,
     assignment |-> IF result = "Sat" THEN assignment ELSE EmptyAssignment]

\* main hands clones of the same instance and of the same initial
\* assignment to one invocation of solve_dpll after the other
\* (main.rs:140-149); solve_dpll takes no seed and choose_variable draws
\* from rand::thread_rng() (dpll.rs:157, 164).  The first result is kept
\* and the locals of solve_dpll start afresh.
SolveAgain ==
    /\ result \in {"Sat", "Unsat"}
    /\ previous = NoResult
    /\ previous' = SolverResult
    /\ max_id' = 0
    /\ cnf' = <<>>
    /\ assignment' = EmptyAssignment
    /\ stack' = <<>>
    /\ ret' = "none"
    /\ result' = "none"
    /\ decisions' = 0
    /\ UNCHANGED <<instance_vars, transformer_vars, portfolio_vars>>

NextTwice ==
    \/ Next
    \/ SolveAgain

SpecTwice == Init /\ [][NextTwice]_vars

\* The steps of solve_dpll_recursive (dpll.rs:168-227).
SolveDpllRecursive ==
    \/ RemoveUnitClause
    \/ FindPureLiterals
    \/ EliminatePureLiteral
    \/ FoundSolution
    \/ FoundEmptyClause
    \/ Restore
    \/ ReturnUnsat
    \/ BranchTrue
    \/ ReturnSat
    \/ RestoreTrue
    \/ BranchFalse
    \/ RestoreFalse

\* FairSpec: a call of solve_dpll that is made and keeps running.  The
\* thread that runs it is scheduled until it returns or panics
\* (main.rs:144-148), and the draws of choose_variable are fair: the loop
\* of dpll.rs:156-161 hits an unassigned identifier in the end.  CallPending
\* is the guard of SolveDpll, the only step there is while it holds.
CallPending == result = "none" /\ stack = <<>> /\ ret = "none"

FairSpec ==
    /\ Spec
    /\ []<>(~CallPending)
    /\ WF_vars(SolveDpllRecursive)



\* ------------------------------------------------------------------------
\* SpecT: the functions of the expression algebra and of the transformer,
\* each applied to the expression of an instance
\* ------------------------------------------------------------------------

InitT ==
    /\ \E instance \in Instances :
          /\ expression = instance.expression
          /\ var_to_str = instance.var_to_str
    /\ initial_assignment = EmptyAssignment
    /\ max_id = 0
    /\ cnf = <<>>
    /\ assignment = EmptyAssignment
    /\ stack = <<>>
    /\ ret = "none"
    /\ result = "none"
    /\ applied = "none"
    /\ argument = EmptyAssignment
    /\ output = <<>>
    /\ decisions = 0
    /\ previous = NoResult
    /\ threads = <<>>
    /\ channel = <<>>
    /\ collector = "none"

Apply(function, value) ==
    /\ applied = "none"
    /\ applied' = function
    /\ output' = value
    /\ UNCHANGED <<instance_vars, solver_vars, previous, portfolio_vars>>

\* Expression::evaluate under any partial assignment of the named variables
ApplyEvaluate ==
    \E a \in AssignmentsOver(var_to_str, Cardinality(var_to_str)) :
        /\ Apply("evaluate", evaluate(expression, a))
        /\ argument' = a

ApplyToDnfExpr ==
    Apply("to_dnf_expr", to_dnf_expr(expression)) /\ UNCHANGED argument

ApplyToCnfExpr ==
    Apply("to_cnf_expr", to_cnf_expr(expression)) /\ UNCHANGED argument

ApplyDnfFrom ==
    Apply("DNF::from", DNF_from(expression)) /\ UNCHANGED argument

ApplyCnfFrom ==
    Apply("CNF::from", CNF_from(expression)) /\ UNCHANGED argument

\* CNF::from(Expression::from(CNF::from(expression))): the clause list
\* turned back into an expression (normal.rs:68-80) and converted again
\* (normal.rs:105-126).
ApplyCnfFromTwice ==
    /\ Apply("CNF::from twice",
             CNF_from(Expression_from_CNF(CNF_from(expression))))
    /\ UNCHANGED argument

\* The steps allowed to a conversion of an expression: the cube of its
\* number of nodes plus one.
Budget(self) == (Size(self) + 1) * (Size(self) + 1) * (Size(self) + 1)

\* to_dnf_expr and to_cnf_expr with their steps counted
ApplyToDnfExprWithin ==
    /\ Apply("to_dnf_expr within",
             to_dnf_expr_within(expression, Budget(expression)))
    /\ UNCHANGED argument

ApplyToCnfExprWithin ==
    /\ Apply("to_cnf_expr within",
             to_cnf_expr_within(expression, Budget(expression)))
    /\ UNCHANGED argument

\* The stages of the rewriting, each applied on its own
ApplyRecursiveDemorgan ==
    /\ Apply("recursive_demorgan", recursive_demorgan(expression))
    /\ UNCHANGED argument

ApplyDistributeAndOverOr ==
    /\ Apply("distribute_and_over_or", distribute_and_over_or(expression))
    /\ UNCHANGED argument

NextT ==
    \/ ApplyRecursiveDemorgan
    \/ ApplyDistributeAndOverOr
    \/ ApplyEvaluate
    \/ ApplyToDnfExpr
    \/ ApplyToCnfExpr
    \/ ApplyDnfFrom
    \/ ApplyCnfFrom
    \/ ApplyCnfFromTwice
    \/ ApplyToDnfExprWithin
    \/ ApplyToCnfExprWithin

SpecT == InitT /\ [][NextT]_vars


\* ------------------------------------------------------------------------
\* SpecP: the portfolio of main (main.rs:136-167)
\* ------------------------------------------------------------------------

\* main has built its instance and the empty initial assignment
\* (main.rs:92, 134) and the channel (main.rs:136) and enters the loop that
\* spawns the threads.  Every thread solves a clone of the same instance:
\* `result` is what solve_dpll returns on it, which Spec works out and which
\* is an input here (these instances have names for all their identifiers,
\* so solve_dpll does not panic on them).
InitP ==
    /\ \E instance \in EncodedInstances :
          /\ expression = instance.expression
          /\ var_to_str = instance.var_to_str
    /\ initial_assignment = EmptyAssignment
    /\ result \in {"Sat", "Unsat"}
    /\ max_id = 0
    /\ cnf = <<>>
    /\ assignment = EmptyAssignment
    /\ stack = <<>>
    /\ ret = "none"
    /\ applied = "none"
    /\ argument = EmptyAssignment
    /\ output = <<>>
    /\ decisions = 0
    /\ previous = NoResult
    /\ threads = <<>>
    /\ channel = <<>>
    /\ collector = "spawn"

\* One turn of the loop `for _ in 0..THREADS` (main.rs:140-149): a thread
\* is spawned with its clone of the sender; after the last turn main enters
\* its receiving loop (main.rs:151).
Spawn ==
    /\ collector = "spawn"
    /\ threads' = Append(threads, "solving")
    /\ collector' = IF Len(threads) + 1 = THREADS THEN "recv" ELSE "spawn"
    /\ UNCHANGED <<channel, instance_vars, solver_vars, transformer_vars, previous>>

\* The thread's solve_dpll returned Sat: the thread sends the assignment,
\* which stands here as the number of the thread, and ends (main.rs:145-147).
ThreadSat(t) ==
    /\ threads[t] = "solving"
    /\ result = "Sat"
    /\ channel' = Append(channel, t)
    /\ threads' = [threads EXCEPT ![t] = "done"]
    /\ UNCHANGED <<collector, instance_vars, solver_vars, transformer_vars, previous>>

\* The thread's solve_dpll returned Unsat: the thread ends and has sent
\* nothing (main.rs:145, 148).
ThreadUnsat(t) ==
    /\ threads[t] = "solving"
    /\ result = "Unsat"
    /\ threads' = [threads EXCEPT ![t] = "done"]
    /\ UNCHANGED <<channel, collector, instance_vars, solver_vars,
                   transformer_vars, previous>>

\* `rx.recv().unwrap()` (main.rs:152) returns a message.  While the channel
\* is empty recv blocks; it would return Err only when every sender is
\* dropped, and main keeps `tx` (main.rs:136) for as long as it runs.
Receive ==
    /\ collector = "recv"
    /\ channel # <<>>
    /\ channel' = Tail(channel)
    /\ collector' = "print"
    /\ UNCHANGED <<threads, instance_vars, solver_vars, transformer_vars, previous>>

\* The rest of the body of `loop` (main.rs:153-166): the solution is
\* printed and the loop, which has no break, starts over.
PrintSolution ==
    /\ collector = "print"
    /\ collector' = "recv"
    /\ UNCHANGED <<threads, channel, instance_vars, solver_vars,
                   transformer_vars, previous>>

NextP ==
    \/ Spawn
    \/ \E t \in DOMAIN threads : ThreadSat(t)
    \/ \E t \in DOMAIN threads : ThreadUnsat(t)
    \/ Receive
    \/ PrintSolution

SpecP == InitP /\ [][NextP]_vars


\* ------------------------------------------------------------------------
\* What the claims speak of
\* ------------------------------------------------------------------------

\* A literal, a list of clauses read as a conjunction of disjunctions and a
\* set of clauses read as a disjunction of conjunctions, under a total
\* assignment.
LiteralHolds(literal, a) == a[literal.var_id] = literal.value

CnfHolds(clauses, a) ==
    \A i \in DOMAIN clauses : \E literal \in clauses[i].literals :
        LiteralHolds(literal, a)

DnfHolds(clauses, a) ==
    \E clause \in clauses : \A literal \in clause.literals :
        LiteralHolds(literal, a)

\* The truth table of an expression runs over these assignments.
TruthTable(e) == TotalAssignments(Identifiers(e))

Satisfiable(e) == \E a \in TruthTable(e) : naive_evaluate(e, a)

\* A literal is satisfied by a partial assignment.
Satisfied(literal, asg) ==
    literal.var_id \in DOMAIN asg /\ asg[literal.var_id] = literal.value

RECURSIVE ContainsAnd(_)
ContainsAnd(e) ==
    CASE e.tag = "And" -> TRUE
      [] e.tag = "Or" -> ContainsAnd(e.lhs) \/ ContainsAnd(e.rhs)
      [] e.tag = "Not" -> ContainsAnd(e.expr)
      [] OTHER -> FALSE

RECURSIVE NoAndBeneathOr(_)
NoAndBeneathOr(e) ==
    CASE e.tag = "And" -> NoAndBeneathOr(e.lhs) /\ NoAndBeneathOr(e.rhs)
      [] e.tag = "Or" -> ~ContainsAnd(e.lhs) /\ ~ContainsAnd(e.rhs)
      [] e.tag = "Not" -> NoAndBeneathOr(e.expr)
      [] OTHER -> TRUE

RECURSIVE NotOnlyAboveVariables(_)
NotOnlyAboveVariables(e) ==
    CASE e.tag = "Not" -> e.expr.tag = "Variable"
      [] e.tag \in {"And", "Or"} ->
            NotOnlyAboveVariables(e.lhs) /\ NotOnlyAboveVariables(e.rhs)
      [] OTHER -> TRUE

\* The clauses of a clause list, order and duplicates forgotten.
ClauseSet(clauses) == {clauses[i] : i \in DOMAIN clauses}

\* solve_dpll has prepared the clause database.
Prepared == stack # <<>> \/ result \in {"Sat", "Unsat"}

\* ------------------------------------------------------------------------
\* The claims
\* ------------------------------------------------------------------------

\* C1 (soundness): when solve_dpll returns Sat(A), evaluate(expression, A)
\* is the constant true.
C1_SatAssignmentEvaluatesToTrue ==
    result = "Sat" => evaluate(expression, assignment) = Constant(TRUE)

\* C2 (completeness): when solve_dpll returns Unsat for the empty initial
\* assignment, no total assignment of the variables of the expression makes
\* the expression true.
C2_UnsatMeansUnsatisfiable ==
    (result = "Unsat" /\ initial_assignment = EmptyAssignment)
        => ~Satisfiable(expression)

\* C3: the clause list of CNF::from(e), read as a conjunction of
\* disjunctions (the empty clause false), has the truth table of e.
C3_CnfHasTheTruthTable ==
    applied = "CNF::from" =>
        \A a \in TruthTable(expression) :
            CnfHolds(output, a) = naive_evaluate(expression, a)

\* C4 (backtrack restoration): when an invocation of solve_dpll_recursive
\* is about to return Unsat, the is_disabled flags and the assignment are
\* what they were when the invocation was entered.
C4_UnsatRestoresEntryState ==
    Restored =>
        /\ Flags(cnf) = Top.entry_flags
        /\ assignment = Top.entry_assignment

\* C4 witness: a nested invocation returns Unsat after it has undone a trail
\* that had disabled clauses.
C4_Witness ==
    /\ Restored
    /\ Len(stack) >= 2
    /\ Top.new_assignments # <<>>
    /\ \E i \in DOMAIN cnf : cnf[i].is_disabled
    /\ \E i \in DOMAIN cnf :
          /\ ~cnf[i].is_disabled
          /\ Top.new_assignments[1] \in cnf[i].literals

\* C5 (clause-database invariant): after the preparation and after every
\* assign+disable and unassign+enable pair, no enabled clause holds a
\* literal that the assignment satisfies.
C5_EnabledClausesUnsatisfied ==
    \A i \in DOMAIN cnf :
        ~cnf[i].is_disabled =>
            \A literal \in cnf[i].literals : ~Satisfied(literal, assignment)

\* C5 witness: in a restore loop, a literal was just unassigned and a clause
\* that holds it is enabled again, while another clause stays disabled
\* under the assignment that is left.
C5_Witness ==
    /\ Running /\ Top.pc = "restore" /\ Top.restore > 1
    /\ assignment # EmptyAssignment
    /\ \E i \in DOMAIN cnf :
          /\ ~cnf[i].is_disabled
          /\ Top.new_assignments[Top.restore - 1] \in cnf[i].literals
    /\ \E i \in DOMAIN cnf : cnf[i].is_disabled

\* A step keeps the value of every variable that stays assigned, and
\* unassigns no variable of the initial assignment.
KeepsInitialAssignment ==
    /\ \A id \in DOMAIN assignment \cap DOMAIN assignment' :
          assignment'[id] = assignment[id]
    /\ \A id \in DOMAIN assignment \ DOMAIN assignment' :
          id \notin DOMAIN initial_assignment

\* C6: no step of solve_dpll changes or removes the value of a variable of
\* the initial assignment: a step assigns only unassigned variables and
\* unassigns only variables the search assigned, so from the preparation on
\* (and in a returned Sat(A)) the assignment agrees with the initial one.
C6_InitialAssignmentKept ==
    /\ [](Prepared =>
            \A id \in DOMAIN initial_assignment :
                /\ id \in DOMAIN assignment
                /\ assignment[id] = initial_assignment[id])
    /\ [][Prepared => KeepsInitialAssignment]_vars

\* C6 witness: Sat is returned for a non-empty initial assignment that the
\* search has extended.
C6_Witness ==
    /\ result = "Sat"
    /\ initial_assignment # EmptyAssignment
    /\ DOMAIN assignment # DOMAIN initial_assignment
    /\ \E i \in DOMAIN cnf : \E literal \in cnf[i].literals :
          literal.var_id \in DOMAIN initial_assignment

\* C7: under an assignment that is total over the variables of e,
\* evaluate(e, a) is the Constant node of the naive truth-table value.
C7_EvaluateTotalIsTruthValue ==
    (applied = "evaluate" /\ Identifiers(expression) \subseteq DOMAIN argument)
        => output = Constant(naive_evaluate(expression, argument))

\* C7 witness: evaluate folded a compound expression with variables under a
\* total assignment.
C7_Witness ==
    /\ applied = "evaluate"
    /\ Identifiers(expression) \subseteq DOMAIN argument
    /\ Identifiers(expression) # {}
    /\ expression.tag = "And"
    /\ output = Constant(TRUE)

\* C8: the clause set of DNF::from(e), read as a disjunction of
\* conjunctions, has the truth table of e.
C8_DnfHasTheTruthTable ==
    applied = "DNF::from" =>
        \A a \in TruthTable(expression) :
            DnfHolds(output, a) = naive_evaluate(expression, a)

\* C9: the expression to_cnf_expr returns is a conjunction of disjunctions:
\* no And node lies beneath an Or node.
C9_CnfExprHasNoAndBeneathOr ==
    applied = "to_cnf_expr" => NoAndBeneathOr(output)

\* C10 (NNF): in the expressions to_cnf_expr and to_dnf_expr return, the
\* child of every Not node is a Variable leaf.
C10_NotOnlyAboveVariables ==
    applied \in {"to_cnf_expr", "to_dnf_expr"} => NotOnlyAboveVariables(output)


\* C11 (idempotence): the clause list of CNF::from(e), turned back into an
\* expression and converted with CNF::from again, has the same set of
\* clauses as CNF::from(e).
C11_CnfFromTwiceSameClauses ==
    applied = "CNF::from twice" =>
        ClauseSet(output) = ClauseSet(CNF_from(expression))

\* Reached: a second conversion of at least two clauses, one of them with
\* two literals, one of these negative.
C11_Witness ==
    /\ applied = "CNF::from twice"
    /\ Len(output) >= 2
    /\ \E i \in DOMAIN output :
          /\ Cardinality(output[i].literals) >= 2
          /\ \E literal \in output[i].literals : literal.value = FALSE

\* C12 (determinism): a second invocation of solve_dpll with the same
\* instance and the same initial assignment (there is no seed to hand over)
\* returns what the first one returned: the same verdict and, on Sat, the
\* same assignment.
C12_SecondInvocationSameResult ==
    (previous # NoResult /\ result \in {"Sat", "Unsat"})
        => SolverResult = previous

\* The clauses that have literals, every one of them on a variable to which
\* the initial assignment gives the other value.  The clause database holds
\* the clauses of CNF::from(expression) from the preparation on.
FalsifiedByInitialAssignment ==
    {i \in DOMAIN cnf :
        /\ cnf[i].literals # {}
        /\ \A literal \in cnf[i].literals :
              /\ literal.var_id \in DOMAIN initial_assignment
              /\ initial_assignment[literal.var_id] # literal.value}

\* C13: when the initial assignment falsifies every literal of a clause of
\* CNF::from(expression), that clause is enabled after the preparation of
\* solve_dpll and stays so, choose_variable is never called, the run neither
\* returns Sat nor aborts, and as long as it has not returned Unsat the
\* search has a step to take.
C13_FalsifiedClauseGivesUnsat ==
    FalsifiedByInitialAssignment # {} =>
        /\ result \in {"none", "Unsat"}
        /\ decisions = 0
        /\ \A i \in FalsifiedByInitialAssignment : ~cnf[i].is_disabled
        /\ result = "none" => ENABLED SolveDpllRecursive

\* Reached: Unsat returned for a clause list of several clauses, one of
\* them falsified by the initial assignment and another one disabled on the
\* way.
C13_Witness ==
    /\ FalsifiedByInitialAssignment # {}
    /\ result = "Unsat"
    /\ Len(cnf) >= 2
    /\ \E i \in DOMAIN cnf : i \notin FalsifiedByInitialAssignment

\* C14: whatever the instance, one without names included, and whatever the
\* initial assignment, solve_dpll never aborts: what it surfaces is Sat or
\* Unsat.
C14_SatOrUnsatOnly ==
    result \in {"none", "Sat", "Unsat"}

\* The expression holds an identifier outside the dense range 0..=max_id
\* that the name map of the instance declares.
OutOfRange ==
    \E id \in Identifiers(expression) :
        id \notin 0..(Cardinality(var_to_str) - 1)

\* C15: for an expression with an identifier outside the declared range,
\* solve_dpll reports a failure of its own: it does not abort, and it does
\* not return Sat or Unsat as if the instance were well formed.
C15_OutOfRangeIsReported ==
    OutOfRange => result \notin {"Sat", "Unsat", "Abort"}

\* C16 (termination): to_dnf_expr and to_cnf_expr come to an end on every
\* input expression: the loop of recursive_demorgan and the recursion of
\* distribute_and_over_or stop within the budget of steps, and what they
\* have then is the result of the conversion.
C16_ConversionsTerminate ==
    /\ applied = "to_dnf_expr within" =>
          /\ output.fuel >= 0
          /\ output.expression = to_dnf_expr(expression)
    /\ applied = "to_cnf_expr within" =>
          /\ output.fuel >= 0
          /\ output.expression = to_cnf_expr(expression)

\* Reached: a conversion to CNF that came to its end after more than ten
\* steps for every node of its input, so after turns of the loop and
\* distributions that went over the same nodes again and again.
C16_Witness ==
    /\ applied = "to_cnf_expr within"
    /\ output.fuel >= 0
    /\ Budget(expression) - output.fuel > 10 * Size(expression)

\* C17 (portfolio termination): main never waits on the result channel
\* when nothing can arrive any more, i.e. with the channel empty and every
\* thread spawned and ended; by then, after the first Sat or after the last
\* Unsat, the run is over.
C17_CollectorNeverWaitsForever ==
    ~(/\ collector = "recv"
      /\ channel = <<>>
      /\ Len(threads) = THREADS
      /\ \A t \in DOMAIN threads : threads[t] # "solving")

\* The run on v0 & (-v0 | v1) & (-v1 | v2) with the initial assignment
\* {v0 = true}.
ChainRun ==
    /\ expression \in {instance.expression : instance \in ChainInstances}
    /\ initial_assignment = [id \in {0} |-> TRUE]

\* C18: on v0 & (-v0 | v1) & (-v1 | v2) with the initial assignment
\* {v0 = true}, solve_dpll never calls choose_variable, returns nothing but
\* Sat, returns it with v0, v1 and v2 all true, and as long as it has not
\* returned the search has a step to take.
C18_ChainSolvedByUnitPropagation ==
    ChainRun =>
        /\ decisions = 0
        /\ result \in {"none", "Sat"}
        /\ result = "Sat" => assignment = [id \in 0..2 |-> TRUE]
        /\ (Prepared /\ result = "none") => ENABLED SolveDpllRecursive

\* Reached: the run has returned Sat with the three variables true, two of
\* them assigned by remove_unit_clauses.
C18_Witness ==
    /\ ChainRun
    /\ result = "Sat"
    /\ decisions = 0
    /\ assignment = [id \in 0..2 |-> TRUE]

\* The identifiers of the clause list lie in 0..=max_id.
WithinMaxId ==
    \A i \in DOMAIN cnf : \A literal \in cnf[i].literals :
        literal.var_id \in 0..max_id

\* The top invocation was entered with exactly those clauses disabled that
\* hold a literal satisfied by the assignment it was entered with.
EntryStateConsistent ==
    \A i \in DOMAIN cnf :
        Top.entry_flags[i] <=>
            \E literal \in cnf[i].literals :
                Satisfied(literal, Top.entry_assignment)

\* Some total assignment of 0..=max_id extends the assignment the top
\* invocation was entered with and satisfies every clause.
EntryAssignmentExtends ==
    \E a \in TotalAssignments(0..max_id) :
        /\ \A id \in DOMAIN Top.entry_assignment :
              a[id] = Top.entry_assignment[id]
        /\ \A i \in DOMAIN cnf : \E literal \in cnf[i].literals :
              LiteralHolds(literal, a)

\* C19: an invocation of solve_dpll_recursive on a clause list over
\* 0..=max_id, entered with exactly the satisfied clauses disabled, returns
\* Sat if and only if some total extension of its entry assignment
\* satisfies every clause.
C19_SearchAgreesWithEnumeration ==
    [][(Running /\ Len(stack') < Len(stack)
            /\ WithinMaxId /\ EntryStateConsistent)
          => (ret' = "Sat" <=> EntryAssignmentExtends)]_vars

\* Reached: both branches of a decision have returned Unsat, and no total
\* extension of the entry assignment satisfies every clause.
C19_Witness ==
    /\ Running
    /\ WithinMaxId
    /\ EntryStateConsistent
    /\ Top.pc = "false"
    /\ ret = "Unsat"
    /\ ~EntryAssignmentExtends

\* C20: between the steps of solve_dpll every disabled clause holds a
\* literal that the assignment satisfies; so when Sat is returned, with no
\* clause enabled, the returned assignment satisfies every clause of the
\* clause database.
C20_DisabledClausesSatisfied ==
    /\ \A i \in DOMAIN cnf :
          cnf[i].is_disabled =>
              \E literal \in cnf[i].literals : Satisfied(literal, assignment)
    /\ result = "Sat" =>
          \A i \in DOMAIN cnf :
              \E literal \in cnf[i].literals : Satisfied(literal, assignment)

\* Reached: Sat returned after a decision, with a variable assigned false,
\* for a clause list of several clauses, all of them disabled.
C20_Witness ==
    /\ result = "Sat"
    /\ decisions > 0
    /\ Len(cnf) >= 2
    /\ \E id \in DOMAIN assignment : assignment[id] = FALSE
    /\ \A i \in DOMAIN cnf : cnf[i].is_disabled

\* C21 (undo order): while an invocation of solve_dpll_recursive that
\* returns Unsat undoes its trail, the literal appended last is the first
\* to be removed from the assignment and passed to enable: the literals of
\* new_assignments that are still assigned are the ones appended first.
C21_TrailUndoneInReverse ==
    (Running /\ Top.pc = "restore") =>
        \A i \in DOMAIN Top.new_assignments :
            Top.new_assignments[i].var_id \in DOMAIN assignment =>
                \A j \in 1..(i - 1) :
                    Top.new_assignments[j].var_id \in DOMAIN assignment

\* The top invocation is about to call enable: in a restore loop
\* (dpll.rs:186, 223) or after a branch that returned Unsat (dpll.rs:205, 219).
EnableCalled ==
    /\ Running
    /\ \/ Top.pc = "restore" /\ Top.restore <= Len(Top.new_assignments)
       \/ Top.pc \in {"true", "false"} /\ ret = "Unsat"

\* The literal that call of enable is handed.
EnabledLiteral ==
    IF Top.pc = "restore"
    THEN Top.new_assignments[Top.restore]
    ELSE Literal(Top.var_id, Top.pc = "true")

\* C22: a call enable(L, A) enables a disabled clause that contains L if
\* and only if no other literal of the clause is satisfied by A, and leaves
\* the flag of every other clause (and the literals of every clause) as
\* they were.
C22_EnableIffNoOtherLiteralSatisfied ==
    [][EnableCalled =>
        /\ DOMAIN cnf' = DOMAIN cnf
        /\ \A i \in DOMAIN cnf :
              /\ cnf'[i].literals = cnf[i].literals
              /\ cnf'[i].is_disabled =
                    IF /\ cnf[i].is_disabled
                       /\ EnabledLiteral \in cnf[i].literals
                       /\ \A other \in cnf[i].literals \ {EnabledLiteral} :
                             ~Satisfied(other, assignment')
                    THEN FALSE
                    ELSE cnf[i].is_disabled]_vars

\* C22 witness: enable was just called in a restore loop for a literal L;
\* one clause that holds L is enabled again, another one that holds L
\* stays disabled because another of its literals is still satisfied.
C22_Witness ==
    /\ Running /\ Top.pc = "restore" /\ Top.restore > 1
    /\ LET L == Top.new_assignments[Top.restore - 1]
       IN  /\ \E i \in DOMAIN cnf :
                 ~cnf[i].is_disabled /\ L \in cnf[i].literals
           /\ \E i \in DOMAIN cnf :
                 /\ cnf[i].is_disabled /\ L \in cnf[i].literals
                 /\ \E other \in cnf[i].literals \ {L} :
                       Satisfied(other, assignment)

\* The top invocation stands at its decision: neither termination check
\* of dpll.rs:176-190 fired and choose_variable is called next (dpll.rs:193).
DecisionPoint ==
    /\ Simplified
    /\ ~has_no_clauses(cnf)
    /\ ~has_empty_clause(cnf, assignment)

\* C23: once unit propagation has finished, no enabled clause has exactly
\* one unassigned literal, pure-literal elimination creates none, and at
\* every decision point each enabled clause has at least two unassigned
\* literals.
C23_NoUnitClauseAfterPropagation ==
    /\ (Running /\ Top.pc = "pure") =>
          \A i \in DOMAIN cnf :
              ~cnf[i].is_disabled => literal_count(cnf[i], assignment) # 1
    /\ DecisionPoint =>
          \A i \in DOMAIN cnf :
              ~cnf[i].is_disabled => literal_count(cnf[i], assignment) >= 2

\* C23 witness: a decision point of an invocation whose unit propagation
\* or pure-literal elimination has assigned a literal, with a clause left.
C23_Witness ==
    /\ DecisionPoint
    /\ Top.new_assignments # <<>>
    /\ \E i \in DOMAIN cnf :
          ~cnf[i].is_disabled /\ literal_count(cnf[i], assignment) >= 2

\* C24: every literal that pure-literal elimination is to add to the
\* assignment is pure when the scan ends and stays so until it is added:
\* its variable is unassigned, its negation occurs in no enabled clause,
\* and the scan has not selected its negation as well.
C24_SelectedLiteralsArePure ==
    (Running /\ Top.pc = "pure") =>
        \A literal \in Top.pure_literals :
            /\ literal.var_id \notin DOMAIN assignment
            /\ LiteralNot(literal) \notin Top.pure_literals
            /\ \A i \in DOMAIN cnf :
                  ~cnf[i].is_disabled =>
                      LiteralNot(literal) \notin cnf[i].literals

\* C24 witness: the scan has just ended (nothing eliminated yet); it
\* selected a literal and passed over a variable that occurs in both
\* polarities in the enabled clauses.
C24_Witness ==
    /\ Running /\ Top.pc = "pure"
    /\ Top.new_assignments = <<>>
    /\ Top.pure_literals # {}
    /\ \E i, j \in DOMAIN cnf :
          /\ ~cnf[i].is_disabled /\ ~cnf[j].is_disabled
          /\ \E literal \in cnf[i].literals :
                /\ literal.var_id \notin DOMAIN assignment
                /\ LiteralNot(literal) \in cnf[j].literals

\* C25: at a decision point of a run on an instance whose expression is
\* over identifiers of 0..=max_id, the step that follows does not fail the
\* expectation of dpll.rs:193: it takes an identifier of 0..=max_id that
\* the assignment does not hold, and assigns it.
C25_DecisionVariableIsUnassigned ==
    [][(DecisionPoint /\ ~OutOfRange) =>
          /\ result' # "Abort"
          /\ Len(stack') = Len(stack) + 1
          /\ stack'[Len(stack)].var_id \in 0..max_id
          /\ stack'[Len(stack)].var_id \notin DOMAIN assignment
          /\ stack'[Len(stack)].var_id \in DOMAIN assignment']_vars

\* C25 witness: a decision was taken while the assignment already held an
\* identifier, so that not every identifier of 0..=max_id was eligible.
C25_Witness ==
    /\ Running /\ ~OutOfRange
    /\ Len(stack) >= 2
    /\ stack[Len(stack) - 1].pc = "true"
    /\ Top.pc = "unit" /\ Top.new_assignments = <<>>
    /\ Cardinality(DOMAIN assignment) >= 2
    /\ stack[Len(stack) - 1].var_id \in 0..max_id

\* C26 (confluence of the verdict): two executions of solve_dpll on the
\* same instance and the same initial assignment end with the same
\* verdict, whatever order the pure literals were handed out in and
\* whichever variables were chosen at the decisions.
C26_SameVerdictOnEveryExecution ==
    (previous # NoResult /\ result # "none") => result = previous.verdict

\* C26 witness: two executions took decisions, ended with different
\* assignments, and with the same verdict.
C26_Witness ==
    /\ previous.verdict = "Sat" /\ result = "Sat"
    /\ decisions >= 1
    /\ assignment # previous.assignment

RECURSIVE ContainsOr(_)
ContainsOr(e) ==
    CASE e.tag = "Or" -> TRUE
      [] e.tag = "And" -> ContainsOr(e.lhs) \/ ContainsOr(e.rhs)
      [] e.tag = "Not" -> ContainsOr(e.expr)
      [] OTHER -> FALSE

RECURSIVE NoOrBeneathAnd(_)
NoOrBeneathAnd(e) ==
    CASE e.tag = "Or" -> NoOrBeneathAnd(e.lhs) /\ NoOrBeneathAnd(e.rhs)
      [] e.tag = "And" -> ~ContainsOr(e.lhs) /\ ~ContainsOr(e.rhs)
      [] e.tag = "Not" -> NoOrBeneathAnd(e.expr)
      [] OTHER -> TRUE

\* C27: the expression to_dnf_expr returns is a disjunction of
\* conjunctions: no Or node lies beneath an And node, so that neither
\* distribution rule applies anywhere in it.
C27_DnfExprHasNoOrBeneathAnd ==
    applied = "to_dnf_expr" => NoOrBeneathAnd(output)

\* The rewriting stage that was applied to the expression: constant
\* folding is evaluate under the empty assignment.
RewritingApplied ==
    \/ applied = "evaluate" /\ argument = EmptyAssignment
    \/ applied \in {"recursive_demorgan", "distribute_and_over_or",
                    "to_dnf_expr", "to_cnf_expr"}

OpenDecisions == {stack[i].var_id : i \in 1..(Len(stack) - 1)}

\* C29 (termination): every recursive invocation was entered on a
\* decision for an identifier of 0..=max_id of its own, so the nesting is
\* never deeper than the number of identifiers, and every call of
\* solve_dpll returns a verdict in the end.
C29_SolveReturnsVerdict ==
    /\ [](stack # <<>> =>
             /\ Len(stack) - 1 <= max_id + 1
             /\ Cardinality(OpenDecisions) = Len(stack) - 1
             /\ OpenDecisions \subseteq (0..max_id) \cap DOMAIN assignment)
    /\ <>(result \in {"Sat", "Unsat"})

====
